---- MODULE Spec2Model ----
(***************************************************************************)
(* Model of BaseDatastoreRestHandler (modules/dashboard/dto_editor.py):    *)
(* the REST verbs get, put and delete over a DAO-managed datastore.        *)
(*                                                                         *)
(* One action per verb; an action is one whole invocation of the handler.  *)
(* What the invocation did is kept in the state: the calls it made, in     *)
(* order (calls), the responses it emitted (responses), the error list of  *)
(* a put (errors), the DTO it built or showed (dto), the key DAO.save gave *)
(* (saved) and the exception that left the handler, if any (raised).       *)
(*                                                                         *)
(* Mappings (Python dicts) are functions from field names to values; an    *)
(* absent field is absent from the domain.  An optional value (None or a   *)
(* value) is a sequence of length at most one.                             *)
(*                                                                         *)
(* The request envelope is taken to be well formed: the 'request'          *)
(* parameter of a PUT parses as a JSON mapping and its payload parses as   *)
(* a JSON mapping.  The hooks a subclass may override are the base class's *)
(* (identity, or no-ops) except validate, is_deletion_allowed and          *)
(* get_default_content, for which a sample subclass is modelled.           *)
(*                                                                         *)
(* The second part models LessonPage of tests/integration/pageobjects.py:  *)
(* the in-place lesson editor's page-object methods driving a browser.     *)
(* One action per method; the state holds the driver's context (frame),    *)
(* the page (editor, codemirror, lesson) and what the last method did      *)
(* (method, driverCalls, returned, thrown).                                *)
(***************************************************************************)
EXTENDS Integers, Sequences, FiniteSets, TLC

VARIABLES store, used, request, calls, responses, errors, dto, saved, raised,
          frame, editor, codemirror, lesson, method, driverCalls, returned,
          thrown, pc, can_retry, tries, page_sources, fields, args, buttons,
          clicked, checkbox

handlerVars ==
    <<store, used, request, calls, responses, errors, dto, saved, raised>>

pageVars ==
    <<frame, editor, codemirror, lesson, method, driverCalls, returned, thrown>>

\* PageObject.get: where the call is (pc), its can_retry, its tries, and
\* for each load so far whether the page source read 'The website may be
\* down'.
getVars == <<pc, can_retry, tries, page_sources>>

\* The text of each form field a method has written, by element name or id.
formVars == <<fields>>

\* The course content pages: the arguments of the last call (args), the
\* texts of the check-answer buttons of the question batch, in document
\* order (buttons), the elements the last call clicked, in order (clicked),
\* and whether 'Show Contents on One Page' is selected (checkbox).
contentVars == <<args, buttons, clicked, checkbox>>

vars == <<handlerVars, pageVars, getVars, formVars, contentVars>>

\* Number of keys the datastore can hold in the model.
MaxKeys == 1

\* A falsy key: None in a PUT envelope, '' in a GET or DELETE query.
NoKey == 0

Keys == 1..MaxKeys

RequestKeys == {NoKey} \cup Keys

\* ------------------------------------------------------------ mappings

EmptyDict == <<>>

Has(d, k) == k \in DOMAIN d

\* d[k] = v, as a Python assignment: an existing entry is overwritten.
SetItem(d, k, v) == (k :> v) @@ d

\* A field that may be absent: the empty mapping, or one entry.
OptField(name, vals) == {EmptyDict} \cup {name :> v : v \in vals}

\* ------------------------------------------------------- configuration

\* The scope the handler's tokens are minted for.
XSRF_TOKEN == "item-edit"

\* Supported schema versions; the first is preferred for new items.
SCHEMA_VERSIONS == <<1, 2>>

\* The registered pre-save callbacks, in registration order.
PRE_SAVE_HOOKS == <<"pre_save_callback_1", "pre_save_callback_2">>

\* The registered pre-load callbacks, in registration order.
PRE_LOAD_HOOKS == <<"pre_load_callback_1">>

\* ------------------------------------------------------------- inputs

\* A token is modelled by the scope it was minted for; "" is no token.
Tokens == {XSRF_TOKEN, "other-edit", ""}

\* Versions a payload may declare: the supported ones and one that is not.
JsonVersions == {1, 2, 3}

\* JSON payloads as the form editor sends them: count is the text of an
\* integer field.
JsonPayloads ==
    {v @@ t @@ c : v \in OptField("version", JsonVersions),
                   t \in {"title" :> "x", "title" :> ""},
                   c \in OptField("count", {"7", "abc"})}

\* Items as the datastore may hold them before the first request: written
\* by this handler, or by an older release with a schema version that is
\* no longer supported.
LegacyItem == ("version" :> 3) @@ ("title" :> "x")

CurrentItem == ("version" :> 1) @@ ("title" :> "welcome")

InitialStores == {EmptyDict, 1 :> LegacyItem, 1 :> CurrentItem}

\* ------------------------------------------------------- collaborators
\* (controllers.utils, models.transforms, models.roles, common.utils and the
\* DAO are outside this file; they are modelled from their use here.)

\* XsrfTokenManager.is_xsrf_token_valid: the token is present and was minted
\* for this action.
IsXsrfTokenValid(token, action) == token # "" /\ token = action

\* XsrfTokenManager.create_xsrf_token(action).
CreateXsrfToken(action) == action

\* transforms.send_json_response(handler, status, message, payload_dict,
\* xsrf_token): the response envelope; payload and token are optional.
Response(status, message, payload_dict, xsrf_token) ==
    ("status" :> status) @@ ("message" :> message)
        @@ (IF payload_dict # EmptyDict THEN "payload" :> payload_dict
                                        ELSE EmptyDict)
        @@ (IF xsrf_token # "" THEN "xsrf_token" :> xsrf_token ELSE EmptyDict)

\* The response assert_xsrf_token_or_fail emits when it fails.
XsrfDeniedResponse(args_dict) ==
    Response(403, "Bad XSRF token. Please reload the page and try again",
             args_dict, "")

\* assert_xsrf_token_or_fail(token_dict, action, args_dict): TRUE when the
\* token validates; otherwise it emits the denial response and is FALSE.
AssertXsrfTokenOrFail(token, action) == IsXsrfTokenValid(token, action)

\* validation_error(message, key): the validation-error response.
ValidationErrorResponse(message, key) ==
    Response(412, message,
             IF key # NoKey THEN "key" :> key ELSE EmptyDict, "")

\* '\n'.join(errors)
RECURSIVE JoinLines(_)
JoinLines(msgs) ==
    IF msgs = <<>> THEN ""
    ELSE IF Len(msgs) = 1 THEN msgs[1]
    ELSE msgs[1] \o "\n" \o JoinLines(Tail(msgs))

\* int(text) of an integer field of the schema.
IsIntText(text) == text \in {"7"}

ParseInt(text) == IF text = "7" THEN 7 ELSE 0

\* transforms.json_to_dict(json_dict, schema) raises ValueError when a field
\* does not convert to its schema type.
JsonToDictRaises(json_dict) ==
    Has(json_dict, "count") /\ ~IsIntText(json_dict["count"])

JsonToDictError(json_dict) ==
    "invalid literal for int() with base 10: '" \o json_dict["count"] \o "'"

\* transforms.json_to_dict(json_dict, schema), when it does not raise: every
\* field converted to its schema type.
JsonToDict(json_dict) ==
    [k \in DOMAIN json_dict |->
        IF k = "count" THEN ParseInt(json_dict[k]) ELSE json_dict[k]]

\* DAO.DTO(id, dict); id is None (<<>>) for an item not yet stored.
DTO(id, dict) == [id |-> id, dict |-> dict]

\* DAO.load(key): the item, or None.
DaoLoad(st, key) ==
    IF key \in DOMAIN st THEN <<DTO(<<key>>, st[key])>> ELSE <<>>

\* The key DAO.save(item) returns: the item's own, or a fresh one.
DaoSaveKey(us, item) ==
    IF item.id # <<>> THEN item.id[1]
    ELSE CHOOSE k \in Keys \ us : \A j \in Keys \ us : k <= j

\* The datastore after DAO.save(item).
DaoSave(st, us, item) ==
    LET k == DaoSaveKey(us, item)
    IN  [j \in DOMAIN st \cup {k} |-> IF j = k THEN item.dict ELSE st[j]]

\* The datastore after DAO.delete(item).
DaoDelete(st, item) == [j \in DOMAIN st \ {item.id[1]} |-> st[j]]

\* common_utils.run_hooks(hooks, item, item_dict): every callback, in order.
RunHooks(hooks) == hooks

\* --------------------------------------------------------------- hooks

\* sanitize_input_dict(json_dict): the base class changes nothing.
SanitizeInputDict(json_dict) == json_dict

\* transform_after_editor_hook(item_dict): the base class returns it as is.
TransformAfterEditorHook(item_dict) == item_dict

\* transform_for_editor_hook(item_dict): the base class returns it as is.
TransformForEditorHook(item_dict) == item_dict

\* validate(item_dict, key, schema_version, errors) of a subclass: the
\* messages it appends to errors, in order.
Validate(item_dict) ==
    (IF item_dict["title"] = "" THEN <<"Title is required.">> ELSE <<>>)
        \o (IF Has(item_dict, "version") /\ item_dict["version"] = 1
                 /\ Has(item_dict, "count")
              THEN <<"Version 1 has no count.">> ELSE <<>>)

\* get_default_content() of a subclass.
GetDefaultContent == ("version" :> SCHEMA_VERSIONS[1]) @@ ("title" :> "")

\* ----------------------------------------------------------- handlers

\* What an invocation has done when it has done nothing yet.
Entered(st, us) ==
    [store |-> st, used |-> us, calls |-> <<>>, responses |-> <<>>,
     errors |-> <<>>, dto |-> <<>>, saved |-> <<>>, raised |-> ""]

\* Mutation: any declared version passes.
VersionSupported_AnyDeclared(d) == Has(d, "version")

\* version not in self.SCHEMA_VERSIONS, for python_dict.get('version').
VersionSupported(d) ==
    Has(d, "version") /\ \E i \in DOMAIN SCHEMA_VERSIONS : SCHEMA_VERSIONS[i] = d["version"]

\* 'Version %s not supported.' % version
VersionMessage(d) ==
    "Version " \o (IF Has(d, "version") THEN ToString(d["version"]) ELSE "None")
               \o " not supported."

\* Mutation: the token is only required to be present.
PutTokenRejected_PresenceOnly(rq) == rq.xsrf_token = ""

\* Mutation: the token is checked only once the caller is known to be a
\* course admin.
PutTokenRejected_AdminsOnly(rq) ==
    rq.admin /\ ~AssertXsrfTokenOrFail(rq.xsrf_token, XSRF_TOKEN)

\* put: the token check fails and the handler returns.
PutTokenRejected(rq) == ~AssertXsrfTokenOrFail(rq.xsrf_token, XSRF_TOKEN)

\* Mutation: the role is only checked when an existing item is updated.
PutAccessDenied_UpdateOnly(rq) == ~rq.admin /\ rq.key # NoKey

\* put: the caller is not a course admin and the handler answers 401.
PutAccessDenied(rq) == ~rq.admin

\* Mutation: the version check does not keep validate from running.
PutConvert_ValidatesAnyVersion(json_dict) ==
    IF JsonToDictRaises(json_dict)
    THEN [errors |-> <<JsonToDictError(json_dict)>>, dict |-> <<>>,
          calls |-> <<"json_to_dict">>]
    ELSE LET python_dict == JsonToDict(json_dict)
             d == TransformAfterEditorHook(python_dict)
         IN  [errors |-> (IF ~VersionSupported(python_dict)
                            THEN <<VersionMessage(python_dict)>> ELSE <<>>)
                         \o Validate(d),
              dict |-> <<d>>,
              calls |-> <<"json_to_dict", "transform_after_editor_hook",
                          "validate">>]

\* put: the try block. The error list, the converted mapping (None when the
\* conversion raised) and the calls made.
PutConvert(json_dict) ==
    IF JsonToDictRaises(json_dict)
    THEN [errors |-> <<JsonToDictError(json_dict)>>, dict |-> <<>>,
          calls |-> <<"json_to_dict">>]
    ELSE LET python_dict == JsonToDict(json_dict)
         IN  IF ~VersionSupported(python_dict)
             THEN [errors |-> <<VersionMessage(python_dict)>>,
                   dict |-> <<python_dict>>, calls |-> <<"json_to_dict">>]
             ELSE LET d == TransformAfterEditorHook(python_dict)
                  IN  [errors |-> Validate(d), dict |-> <<d>>,
                       calls |-> <<"json_to_dict", "transform_after_editor_hook",
                                   "validate">>]

\* put: if errors
PutHasErrors(errs) == errs # <<>>

\* Mutation: only the first error is reported.
PutValidationError_FirstOnly(o, key) ==
    [o EXCEPT !.calls = @ \o <<"validation_error">>,
              !.responses = @ \o <<ValidationErrorResponse(o.errors[1], key)>>]

\* Mutation: the handler goes on after validation_error and answers again.
PutValidationError_NoReturn(o, key) ==
    [o EXCEPT !.calls = @ \o <<"validation_error", "send_json_response">>,
              !.responses = @ \o <<ValidationErrorResponse(JoinLines(o.errors), key),
                                   Response(200, "Saved.", EmptyDict, "")>>]

\* put: self.validation_error('\n'.join(errors), key=key); return
PutValidationError(o, key) ==
    [o EXCEPT !.calls = @ \o <<"validation_error">>,
              !.responses = @ \o <<ValidationErrorResponse(JoinLines(o.errors), key)>>]

\* Mutation: the response carries the request's key, not the saved one.
PutSave_AnswersRequestKey(o, key, python_dict) ==
    LET item == DTO(IF key # NoKey THEN <<key>> ELSE <<>>, python_dict)
        key_after_save == DaoSaveKey(o.used, item)
    IN  [o EXCEPT !.dto = <<item>>,
                  !.store = DaoSave(o.store, o.used, item),
                  !.used = @ \cup {key_after_save},
                  !.saved = <<key_after_save>>,
                  !.calls = @ \o <<"DTO", "pre_save_hook">>
                              \o RunHooks(PRE_SAVE_HOOKS)
                              \o <<"DAO.save", "after_save_hook",
                                   "send_json_response">>,
                  !.responses = @ \o <<Response(200, "Saved.",
                                                "key" :> key, "")>>]

\* Mutation: after_save_hook runs before DAO.save.
PutSave_HookBeforeSave(o, key, python_dict) ==
    LET item == DTO(IF key # NoKey THEN <<key>> ELSE <<>>, python_dict)
        key_after_save == DaoSaveKey(o.used, item)
    IN  [o EXCEPT !.dto = <<item>>,
                  !.store = DaoSave(o.store, o.used, item),
                  !.used = @ \cup {key_after_save},
                  !.saved = <<key_after_save>>,
                  !.calls = @ \o <<"DTO", "pre_save_hook">>
                              \o RunHooks(PRE_SAVE_HOOKS)
                              \o <<"after_save_hook", "DAO.save",
                                   "send_json_response">>,
                  !.responses = @ \o <<Response(200, "Saved.",
                                                "key" :> key_after_save, "")>>]

\* put: from the construction of the DTO to the 200 response.
PutSave(o, key, python_dict) ==
    LET item == DTO(IF key # NoKey THEN <<key>> ELSE <<>>, python_dict)
        key_after_save == DaoSaveKey(o.used, item)
    IN  [o EXCEPT !.dto = <<item>>,
                  !.store = DaoSave(o.store, o.used, item),
                  !.used = @ \cup {key_after_save},
                  !.saved = <<key_after_save>>,
                  !.calls = @ \o <<"DTO", "pre_save_hook">>
                              \o RunHooks(PRE_SAVE_HOOKS)
                              \o <<"DAO.save", "after_save_hook",
                                   "send_json_response">>,
                  !.responses = @ \o <<Response(200, "Saved.",
                                                "key" :> key_after_save, "")>>]

\* put(self)
put(st, us, rq) ==
    LET key == rq.key
        o0 == [Entered(st, us) EXCEPT !.calls = <<"assert_xsrf_token_or_fail">>]
    IN  IF PutTokenRejected(rq)
        THEN [o0 EXCEPT !.responses = <<XsrfDeniedResponse("key" :> key)>>]
        ELSE LET o1 == [o0 EXCEPT !.calls = @ \o <<"is_course_admin">>]
        IN  IF PutAccessDenied(rq)
        THEN [o1 EXCEPT !.calls = @ \o <<"send_json_response">>,
                        !.responses = <<Response(401, "Access denied.",
                                                 "key" :> key, "")>>]
        ELSE LET json_dict == SanitizeInputDict(rq.payload)
                 c == PutConvert(json_dict)
                 o2 == [o1 EXCEPT !.calls = @ \o <<"sanitize_input_dict">> \o c.calls,
                                  !.errors = c.errors]
        IN  IF PutHasErrors(c.errors)
        THEN PutValidationError(o2, key)
        ELSE PutSave(o2, key, c.dict[1])

\* Mutation: delete only requires the token to be present.
DeleteTokenRejected_PresenceOnly(rq) == rq.xsrf_token = ""

\* delete: the token check fails and the handler returns.
DeleteTokenRejected(rq) == ~AssertXsrfTokenOrFail(rq.xsrf_token, XSRF_TOKEN)

\* Mutation: delete leaves out the role check.
DeleteAccessDenied_Never(rq) == FALSE

\* delete: the caller is not a course admin and the handler answers 401.
DeleteAccessDenied(rq) == ~rq.admin

\* delete: if not item
DeleteNotFound(loaded) == loaded = <<>>

\* Mutation: a missing item is reported as deleted.
DeleteNotFoundResponse_AsDeleted(key) == Response(200, "Deleted.", EmptyDict, "")

\* delete: the 404 response.
DeleteNotFoundResponse(key) == Response(404, "Not found.", "key" :> key, "")

\* is_deletion_allowed(item): the base class allows; a subclass may refuse
\* (rq.allow is what the handler's is_deletion_allowed returns).
IsDeletionAllowed(rq, item) == rq.allow

\* Mutation: the hook is called and its answer is ignored.
DeleteProceeds_IgnoresHook(rq, item) == TRUE

\* delete: if self.is_deletion_allowed(item)
DeleteProceeds(rq, item) == IsDeletionAllowed(rq, item)

\* delete(self)
delete(st, us, rq) ==
    LET key == rq.key
        o0 == [Entered(st, us) EXCEPT !.calls = <<"assert_xsrf_token_or_fail">>]
    IN  IF DeleteTokenRejected(rq)
        THEN [o0 EXCEPT !.responses = <<XsrfDeniedResponse("key" :> key)>>]
        ELSE LET o1 == [o0 EXCEPT !.calls = @ \o <<"is_course_admin">>]
        IN  IF DeleteAccessDenied(rq)
        THEN [o1 EXCEPT !.calls = @ \o <<"send_json_response">>,
                        !.responses = <<Response(401, "Access denied.",
                                                 "key" :> key, "")>>]
        ELSE LET loaded == DaoLoad(st, key)
                 o2 == [o1 EXCEPT !.calls = @ \o <<"DAO.load">>]
        IN  IF DeleteNotFound(loaded)
        THEN [o2 EXCEPT !.calls = @ \o <<"send_json_response">>,
                        !.responses = <<DeleteNotFoundResponse(key)>>]
        ELSE LET o3 == [o2 EXCEPT !.calls = @ \o <<"is_deletion_allowed">>]
        IN  IF DeleteProceeds(rq, loaded[1])
        THEN [o3 EXCEPT !.store = DaoDelete(st, loaded[1]),
                        !.calls = @ \o <<"DAO.delete", "send_json_response">>,
                        !.responses = <<Response(200, "Deleted.", EmptyDict, "")>>]
        ELSE o3

\* Mutation: the role is only checked when an item is asked for.
GetAccessDenied_KeyOnly(rq) == ~rq.admin /\ rq.key # NoKey

\* Mutation: the role is not checked.
GetAccessDenied_Never(rq) == FALSE

\* get: the caller is not a course admin and the handler answers 401.
GetAccessDenied(rq) == ~rq.admin

\* Mutation: the identifier is not injected.
GetDisplayDict_NoId(item) == item.dict

\* get: display_dict = copy.copy(item.dict); display_dict['id'] = item.id
GetDisplayDict(item) == SetItem(item.dict, "id", item.id[1])

\* Mutation: display_dict is item.dict itself, so the 'id' lands in it.
GetItemAfterCopy_Aliased(item) ==
    [item EXCEPT !.dict = SetItem(@, "id", item.id[1])]

\* get: the loaded item once display_dict, a copy of item.dict, has been
\* given its 'id'.
GetItemAfterCopy(item) == item

\* Mutation: the defaults get an 'id' like a loaded item.
GetDefaultPayload_WithId == SetItem(GetDefaultContent, "id", NoKey)

\* get: payload_dict = self.get_default_content()
GetDefaultPayload == GetDefaultContent

\* Mutation: the 200 response is sent without a token.
GetXsrfToken_Omitted == ""

\* get: xsrf_token=XsrfTokenManager.create_xsrf_token(self.XSRF_TOKEN)
GetXsrfToken == CreateXsrfToken(XSRF_TOKEN)

\* get(self)
get(st, us, rq) ==
    LET key == rq.key
        o0 == [Entered(st, us) EXCEPT !.calls = <<"is_course_admin">>]
    IN  IF GetAccessDenied(rq)
        THEN [o0 EXCEPT !.calls = @ \o <<"send_json_response">>,
                        !.responses = <<Response(401, "Access denied.",
                                                 "key" :> key, "")>>]
        ELSE IF key # NoKey
        THEN LET loaded == DaoLoad(st, key)
                 o1 == [o0 EXCEPT !.calls = @ \o <<"DAO.load">>]
             IN  IF loaded = <<>>
                 THEN \* item is None: item.dict raises
                      [o1 EXCEPT !.raised = "AttributeError"]
                 ELSE IF ~VersionSupported(loaded[1].dict)
                 THEN [o1 EXCEPT !.calls = @ \o <<"send_json_response">>,
                                 !.responses =
                                     <<Response(403, VersionMessage(loaded[1].dict),
                                                "key" :> key, "")>>]
                 ELSE LET display_dict == GetDisplayDict(loaded[1])
                          payload_dict == TransformForEditorHook(display_dict)
                      IN  [o1 EXCEPT !.calls = @ \o RunHooks(PRE_LOAD_HOOKS)
                                         \o <<"transform_for_editor_hook",
                                              "create_xsrf_token",
                                              "send_json_response">>,
                                     !.dto = <<GetItemAfterCopy(loaded[1])>>,
                                     !.responses =
                                         <<Response(200, "Success", payload_dict,
                                                    GetXsrfToken)>>]
        ELSE [o0 EXCEPT !.calls = @ \o <<"get_default_content",
                                        "create_xsrf_token", "send_json_response">>,
                        !.responses =
                            <<Response(200, "Success", GetDefaultPayload,
                                       GetXsrfToken)>>]

\* ------------------------------------------------------------ behaviour

\* The state after an invocation that did o in answer to rq.
Answered(rq, o) ==
    /\ request' = rq
    /\ store' = o.store
    /\ used' = o.used
    /\ calls' = o.calls
    /\ responses' = o.responses
    /\ errors' = o.errors
    /\ dto' = o.dto
    /\ saved' = o.saved
    /\ raised' = o.raised
    /\ UNCHANGED <<pageVars, getVars, formVars, contentVars>>

\* The driver's context: the top-level document or the editor's iframe.
TopDocument == "default"

EditorFrame == "iframe"

\* The texts a lesson, and the CodeMirror editing it, can hold.
LessonTexts == {"", "print 1", "print 2"}

NoMethod == [name |-> "", arg |-> ""]

NoRequest ==
    [verb |-> "", key |-> NoKey, xsrf_token |-> "", admin |-> FALSE,
     payload |-> EmptyDict, allow |-> TRUE]

Init ==
    /\ store \in InitialStores
    /\ used = DOMAIN store
    /\ request = NoRequest
    /\ calls = <<>>
    /\ responses = <<>>
    /\ errors = <<>>
    /\ dto = <<>>
    /\ saved = <<>>
    /\ raised = ""
    /\ frame = TopDocument
    /\ editor = "closed"
    /\ codemirror = ""
    /\ lesson = "print 1"
    /\ method = NoMethod
    /\ driverCalls = <<>>
    /\ returned = ""
    /\ thrown = ""
    /\ pc = "idle"
    /\ can_retry = TRUE
    /\ tries = 0
    /\ page_sources = <<>>
    /\ fields = EmptyDict
    /\ args = EmptyDict
    /\ buttons = <<>>
    /\ clicked = <<>>
    /\ checkbox = FALSE

\* A PUT reaches DAO.save.
PutReachesSave(rq) ==
    /\ ~PutTokenRejected(rq)
    /\ ~PutAccessDenied(rq)
    /\ ~PutHasErrors(PutConvert(SanitizeInputDict(rq.payload)).errors)

Put ==
    \E key \in RequestKeys, token \in Tokens, admin \in BOOLEAN,
       payload \in JsonPayloads :
        LET rq == [verb |-> "PUT", key |-> key, xsrf_token |-> token,
                   admin |-> admin, payload |-> payload, allow |-> TRUE]
        IN  \* the datastore of the model holds MaxKeys keys
            /\ (PutReachesSave(rq) /\ key = NoKey) => Keys \ used # {}
            /\ \E o \in {put(store, used, rq)} : Answered(rq, o)

Delete ==
    \E key \in RequestKeys, token \in Tokens, admin \in BOOLEAN,
       allow \in BOOLEAN :
        LET rq == [verb |-> "DELETE", key |-> key, xsrf_token |-> token,
                   admin |-> admin, payload |-> EmptyDict, allow |-> allow]
        IN  \E o \in {delete(store, used, rq)} : Answered(rq, o)

Get ==
    \E key \in RequestKeys, admin \in BOOLEAN :
        LET rq == [verb |-> "GET", key |-> key, xsrf_token |-> "",
                   admin |-> admin, payload |-> EmptyDict, allow |-> TRUE]
        IN  \E o \in {get(store, used, rq)} : Answered(rq, o)

Next == Put \/ Delete \/ Get

Spec == Init /\ [][Next]_vars

\* The datastore holds only items of supported versions to begin with.
InitSupported ==
    /\ Init
    /\ \A k \in DOMAIN store :
          \E i \in DOMAIN SCHEMA_VERSIONS : SCHEMA_VERSIONS[i] = store[k]["version"]

SpecSupported == InitSupported /\ [][Next]_vars

\* -------------------------------------------------- lesson page object

\* The page as the driver finds it.
Page ==
    [frame |-> frame, editor |-> editor, codemirror |-> codemirror,
     lesson |-> lesson, calls |-> <<>>, raised |-> ""]

\* click_edit_lesson: the button is in the top-level document; the click
\* opens the in-place editor on the lesson's text, its spinner showing.
click_edit_lesson(pg) ==
    IF pg.frame # TopDocument
    THEN [pg EXCEPT !.calls = <<"find_element_by_css_selector">>,
                    !.raised = "NoSuchElementException"]
    ELSE [pg EXCEPT !.calls = <<"find_element_by_css_selector", "click">>,
                    !.editor = "loading",
                    !.codemirror = pg.lesson]

\* _edit_lesson_iframe up to its yield: find the editor in the driver's
\* current context, wait for its spinner to hide, switch to its iframe.
EditLessonIframeEnter(pg) ==
    LET found == pg.frame = TopDocument /\ pg.editor # "closed"
        c1 == <<"find_element_by_css_selector">>
        c2 == Append(c1, "wait.until")
        c3 == c2 \o <<"find_element_by_css_selector", "switch_to_frame">>
    IN  IF ~found
        THEN [pg EXCEPT !.calls = c1, !.raised = "NoSuchElementException"]
        ELSE IF pg.editor # "loaded"
        THEN [pg EXCEPT !.calls = c2, !.raised = "TimeoutException"]
        ELSE [pg EXCEPT !.calls = c3, !.frame = EditorFrame]

\* Mutation: the region leaves the driver where the body left it.
EditLessonIframeExit_NoRestore(r) == r

\* _edit_lesson_iframe after its yield.  The generator has no try/finally:
\* an exception of the body is thrown into it at the yield and leaves it
\* there, so the statement after the yield runs only when the body returned.
EditLessonIframeExit(r) ==
    IF r.raised # ""
    THEN r
    ELSE [r EXCEPT !.calls = Append(@, "switch_to_default_content"),
                   !.frame = TopDocument]

\* with self._edit_lesson_iframe(): body.  entered is the state the enter
\* part leaves; the body runs only when the enter part reached its yield,
\* and leaves after_body.
edit_lesson_iframe(entered, after_body) ==
    IF entered.raised # "" THEN entered ELSE EditLessonIframeExit(after_body)

\* The body of edit_lesson_iframe_assert_equal_codemirror.
AssertEqualCodemirror(expected, r) ==
    LET actual == r.codemirror
    IN  [r EXCEPT !.calls = Append(@, "execute_script"),
                  !.raised = IF expected = actual THEN "" ELSE "AssertionError"]

edit_lesson_iframe_assert_equal_codemirror(pg, expected) ==
    LET e == EditLessonIframeEnter(pg)
    IN  edit_lesson_iframe(e, AssertEqualCodemirror(expected, e))

\* The body of edit_lesson_iframe_setvalue_codemirror.
SetvalueCodemirror(value, r) ==
    [r EXCEPT !.calls = Append(@, "execute_script"), !.codemirror = value]

edit_lesson_iframe_setvalue_codemirror(pg, value) ==
    LET e == EditLessonIframeEnter(pg)
    IN  edit_lesson_iframe(e, SetvalueCodemirror(value, e))

\* The body of edit_lesson_iframe_click_save: the click on the submit link
\* saves the text; when the save completes the page drops the editor.
ClickSubmitLink(completes, r) ==
    [r EXCEPT !.calls = @ \o <<"find_element_by_css_selector", "click">>,
              !.lesson = IF completes THEN r.codemirror ELSE @,
              !.editor = IF completes THEN "closed" ELSE @]

\* edit_lesson_iframe_click_save: the region, then the wait for the editor
\* to be gone from the driver's current context.
edit_lesson_iframe_click_save(pg, completes) ==
    LET e == EditLessonIframeEnter(pg)
        w == edit_lesson_iframe(e, ClickSubmitLink(completes, e))
    IN  IF w.raised # ""
        THEN w
        ELSE [w EXCEPT !.calls = Append(@, "wait.until"),
                       !.raised = IF w.editor = "closed"
                                  THEN "" ELSE "TimeoutException"]

\* The state after the test called m and the method did r.
Called(m, r) ==
    /\ method' = m
    /\ frame' = r.frame
    /\ editor' = r.editor
    /\ codemirror' = r.codemirror
    /\ lesson' = r.lesson
    /\ driverCalls' = r.calls
    /\ thrown' = r.raised
    /\ returned' = IF r.raised = "" THEN "self" ELSE ""
    /\ UNCHANGED <<handlerVars, getVars, formVars, contentVars>>

ClickEditLesson ==
    Called([name |-> "click_edit_lesson", arg |-> ""], click_edit_lesson(Page))

\* The browser finishes loading the editor: its spinner hides.
EditorLoaded ==
    /\ editor = "loading"
    /\ editor' = "loaded"
    /\ UNCHANGED <<frame, codemirror, lesson, method, driverCalls, returned,
                   thrown>>
    /\ UNCHANGED <<handlerVars, getVars, formVars, contentVars>>

EditLessonIframeAssertEqualCodemirror ==
    \E expected \in LessonTexts :
        Called([name |-> "edit_lesson_iframe_assert_equal_codemirror",
                arg |-> expected],
               edit_lesson_iframe_assert_equal_codemirror(Page, expected))

EditLessonIframeSetvalueCodemirror ==
    \E value \in LessonTexts :
        Called([name |-> "edit_lesson_iframe_setvalue_codemirror",
                arg |-> value],
               edit_lesson_iframe_setvalue_codemirror(Page, value))

EditLessonIframeClickSave ==
    \E completes \in BOOLEAN :
        Called([name |-> "edit_lesson_iframe_click_save", arg |-> ""],
               edit_lesson_iframe_click_save(Page, completes))

NextPage ==
    \/ ClickEditLesson
    \/ EditorLoaded
    \/ EditLessonIframeAssertEqualCodemirror
    \/ EditLessonIframeSetvalueCodemirror
    \/ EditLessonIframeClickSave

SpecPage == Init /\ [][NextPage]_vars

\* ---------------------------------------------- other iframe methods

\* A statement of a method: the driver call it makes, the exception the call
\* may raise ("" when it raises none), the frame it switches the driver to
\* ("" when it switches none), and whether it looks for an element of the
\* top-level document, which it finds from there only.
Stmt(call, raises, switches_to, top) ==
    [call |-> call, raises |-> raises, frame |-> switches_to, top |-> top]

\* The page after the statements from the i-th on, the fail-th raising.
RECURSIVE RunFrom(_, _, _, _)
RunFrom(r, stmts, i, fail) ==
    IF i > Len(stmts)
    THEN r
    ELSE LET s == stmts[i]
             raises == /\ s.raises # ""
                       /\ i = fail \/ (s.top /\ r.frame # TopDocument)
             called == [r EXCEPT !.calls = Append(@, s.call)]
         IN  IF raises
             THEN [called EXCEPT !.raised = s.raises]
             ELSE RunFrom([called EXCEPT !.frame = IF s.frame # "" THEN s.frame
                                                  ELSE @],
                          stmts, i + 1, fail)

\* _ensure_rte_iframe_ready_and_switch_to_it
EnsureRteIframeReadyAndSwitchToIt ==
    <<Stmt("frame_to_be_available_and_switch_to_it", "TimeoutException",
           "modal-editor-iframe", TRUE),
      Stmt("wait.until", "TimeoutException", "", FALSE)>>

set_rte_lightbox_field ==
    EnsureRteIframeReadyAndSwitchToIt \o
    <<Stmt("find_element_by_css_selector", "NoSuchElementException", "", FALSE),
      Stmt("clear", "", "", FALSE),
      Stmt("send_keys", "", "", FALSE),
      Stmt("switch_to_default_content", "", TopDocument, FALSE)>>

click_rte_save ==
    EnsureRteIframeReadyAndSwitchToIt \o
    <<Stmt("find_element_by_link_text", "NoSuchElementException", "", FALSE),
      Stmt("click", "", "", FALSE),
      Stmt("switch_to_default_content", "", TopDocument, FALSE),
      Stmt("wait.until", "TimeoutException", "", FALSE)>>

doubleclick_rte_element ==
    <<Stmt("find_element_by_css_selector", "NoSuchElementException", "", TRUE),
      Stmt("switch_to_frame", "", ".yui-editor-editable", FALSE),
      Stmt("find_element_by_css_selector", "NoSuchElementException", "", FALSE),
      Stmt("double_click", "", "", FALSE),
      Stmt("switch_to_default_content", "", TopDocument, FALSE)>>

ensure_rte_lightbox_field_has_value ==
    EnsureRteIframeReadyAndSwitchToIt \o
    <<Stmt("find_element_by_css_selector", "NoSuchElementException", "", FALSE),
      Stmt("get_attribute", "", "", FALSE),
      Stmt("assertEqual", "AssertionError", "", FALSE),
      Stmt("switch_to_default_content", "", TopDocument, FALSE)>>

ensure_preview_document_matches_regex ==
    <<Stmt("wait.until", "TimeoutException", "", TRUE),
      Stmt("find_element_by_css_selector", "NoSuchElementException", "", TRUE),
      Stmt("switch_to_frame", "", "div.preview-editor iframe", FALSE),
      Stmt("page_source", "", "", FALSE),
      Stmt("assertRegexpMatches", "AssertionError", "", FALSE),
      Stmt("switch_to_default_content", "", TopDocument, FALSE)>>

\* verify_question_preview: the wait ends when load_modal_iframe has
\* switched to the modal window's iframe.
verify_question_preview ==
    <<Stmt("switch_to_frame", "TimeoutException", "#modal-window iframe", TRUE),
      Stmt("find_element_by_css_selector", "NoSuchElementException", "", FALSE),
      Stmt("assertEquals", "AssertionError", "", FALSE),
      Stmt("switch_to_default_content", "", TopDocument, FALSE),
      Stmt("find_element_by_css_selector", "NoSuchElementException", "", FALSE),
      Stmt("click", "", "", FALSE)>>

\* The test calls the method name, whose statements are stmts.
Run(name, stmts) ==
    \E fail \in 0..Len(stmts) :
        Called([name |-> name, arg |-> ""], RunFrom(Page, stmts, 1, fail))

SetRteLightboxField == Run("set_rte_lightbox_field", set_rte_lightbox_field)

ClickRteSave == Run("click_rte_save", click_rte_save)

DoubleclickRteElement ==
    Run("doubleclick_rte_element", doubleclick_rte_element)

EnsureRteLightboxFieldHasValue ==
    Run("ensure_rte_lightbox_field_has_value",
        ensure_rte_lightbox_field_has_value)

EnsurePreviewDocumentMatchesRegex ==
    Run("ensure_preview_document_matches_regex",
        ensure_preview_document_matches_regex)

VerifyQuestionPreview ==
    Run("verify_question_preview", verify_question_preview)

NextFrames ==
    \/ NextPage
    \/ SetRteLightboxField
    \/ ClickRteSave
    \/ DoubleclickRteElement
    \/ EnsureRteLightboxFieldHasValue
    \/ EnsurePreviewDocumentMatchesRegex
    \/ VerifyQuestionPreview

SpecFrames == Init /\ [][NextFrames]_vars

\* ------------------------------------------------------ PageObject.get

\* The tries of a get that may retry.
RetryTries == 10

\* The tries of a get that may not.
SingleTry == 1

\* The pages a test loads.
Urls == {"/", "/course", "/dashboard", "/modules/admin"}

lessonVars == <<frame, editor, codemirror, lesson>>

\* get(url, can_retry) is called: tries is set.
GetCall ==
    \E url \in Urls, retry \in BOOLEAN :
        /\ pc \in {"idle", "done"}
        /\ method' = [name |-> "get", arg |-> url]
        /\ can_retry' = retry
        /\ tries' = IF retry THEN RetryTries ELSE SingleTry
        /\ page_sources' = <<>>
        /\ driverCalls' = <<>>
        /\ returned' = ""
        /\ thrown' = ""
        /\ pc' = "while"
        /\ UNCHANGED <<handlerVars, lessonVars, formVars, contentVars>>

\* One pass of the loop: a try is spent, the driver loads the url, and the
\* page source shows the site down (sleep, next pass) or not (return).
GetLoad ==
    \E down \in BOOLEAN :
        /\ pc = "while"
        /\ tries > 0
        /\ tries' = tries - 1
        /\ page_sources' = Append(page_sources, down)
        /\ IF down
           THEN /\ driverCalls' = driverCalls \o <<"get", "sleep">>
                /\ UNCHANGED <<pc, returned>>
           ELSE /\ driverCalls' = Append(driverCalls, "get")
                /\ pc' = "done"
                /\ returned' = "None"
        /\ UNCHANGED <<handlerVars, lessonVars, formVars, contentVars, method,
                       can_retry, thrown>>

\* A loop that gives up with one try left.
GetTimeout_OneLeft ==
    /\ pc = "while"
    /\ ~(tries > 1)
    /\ pc' = "done"
    /\ thrown' = "TimeoutException"
    /\ UNCHANGED <<handlerVars, lessonVars, formVars, contentVars, method,
                   can_retry, tries, page_sources, driverCalls, returned>>

\* The loop ends with no try left: get raises.
GetTimeout ==
    /\ pc = "while"
    /\ ~(tries > 0)
    /\ pc' = "done"
    /\ thrown' = "TimeoutException"
    /\ UNCHANGED <<handlerVars, lessonVars, formVars, contentVars, method,
                   can_retry, tries, page_sources, driverCalls, returned>>

NextGet == GetCall \/ GetLoad \/ GetTimeout

SpecGet == Init /\ [][NextGet]_vars

\* ------------------------------------------------ form and button methods

\* The data sources of the analytics page the tests page through.
DataSources == {"students", "assessments"}

\* The paging buttons of a data source.
Buttons == {"zero", "minus_one", "plus_one"}

\* The chunk sizes the tests set, as str(chunk_size) writes them.
ChunkSizes == {"1", "3"}

\* The graders of a short-answer question, as '%d' % n writes them.
Graders == {"0"}

\* The state after method m made the driver calls cs, left the form fields
\* as flds, and returned ret or raised thr.
Did(m, cs, flds, ret, thr) ==
    /\ method' = m
    /\ driverCalls' = cs
    /\ fields' = flds
    /\ returned' = ret
    /\ thrown' = thr
    /\ UNCHANGED <<handlerVars, lessonVars, getVars, contentVars>>

\* A find_element_* call that finds no element.
NotFound(m, by) == Did(m, <<by>>, fields, "", "NoSuchElementException")

\* AnalyticsPage.click: find the button, click it; no return statement.
AnalyticsPageClick ==
    \E data_source \in DataSources, button \in Buttons, found \in BOOLEAN :
        LET name == "gcb_rest_source_page_request_" \o button \o "_"
                        \o data_source
            m == [name |-> "AnalyticsPage.click", arg |-> name]
        IN  IF ~found
            THEN NotFound(m, "find_element_by_id")
            ELSE Did(m, <<"find_element_by_id", "click">>, fields, "None", "")

\* AnalyticsPage.set_chunk_size: find the field, clear it, type the size;
\* no return statement.
AnalyticsPageSetChunkSize ==
    \E data_source \in DataSources, chunk_size \in ChunkSizes,
       found \in BOOLEAN :
        LET name == "gcb_rest_source_chunk_size_" \o data_source
            m == [name |-> "AnalyticsPage.set_chunk_size", arg |-> name]
        IN  IF ~found
            THEN NotFound(m, "find_element_by_id")
            ELSE Did(m, <<"find_element_by_id", "clear", "send_keys">>,
                     SetItem(fields, name, chunk_size), "None", "")

\* ShortAnswerEditorPage.click_add_an_answer: click the link, return self.
ShortAnswerEditorPageClickAddAnAnswer ==
    \E found \in BOOLEAN :
        LET m == [name |-> "ShortAnswerEditorPage.click_add_an_answer",
                  arg |-> "Add an answer"]
        IN  IF ~found
            THEN NotFound(m, "find_element_by_link_text")
            ELSE Did(m, <<"find_element_by_link_text", "click">>, fields,
                     "self", "")

\* set_score and set_response: find the field, clear it, call send_key on
\* it; no return statement.  The element comes from the driver: either it
\* has a send_key (the text is typed) or the call raises AttributeError.
SetGraderField(m, text, found, has_send_key) ==
    IF ~found
    THEN NotFound(m, "find_element_by_name")
    ELSE IF ~has_send_key
    THEN Did(m, <<"find_element_by_name", "clear">>,
             SetItem(fields, m.arg, ""), "", "AttributeError")
    ELSE Did(m, <<"find_element_by_name", "clear", "send_key">>,
             SetItem(fields, m.arg, text), "None", "")

ShortAnswerEditorPageSetScore ==
    \E n \in Graders, score \in {"1.0"}, found \in BOOLEAN,
       has_send_key \in BOOLEAN :
        SetGraderField([name |-> "ShortAnswerEditorPage.set_score",
                        arg |-> "graders[" \o n \o "]score"],
                       score, found, has_send_key)

ShortAnswerEditorPageSetResponse ==
    \E n \in Graders, response \in {"yes"}, found \in BOOLEAN,
       has_send_key \in BOOLEAN :
        SetGraderField([name |-> "ShortAnswerEditorPage.set_response",
                        arg |-> "graders[" \o n \o "]response"],
                       response, found, has_send_key)

\* DashboardPage.verify_selected_group: find the edit group, assert that it
\* is the active one; no return statement.
DashboardPageVerifySelectedGroup ==
    \E group_name \in {"edit", "analytics"}, found \in BOOLEAN,
       active \in BOOLEAN :
        LET m == [name |-> "DashboardPage.verify_selected_group",
                  arg |-> group_name]
        IN  IF ~found
            THEN NotFound(m, "find_element_by_id")
            ELSE IF ~active
            THEN Did(m, <<"find_element_by_id", "get_attribute">>, fields,
                     "", "AssertionError")
            ELSE Did(m, <<"find_element_by_id", "get_attribute">>, fields,
                     "None", "")

NextForm ==
    \/ AnalyticsPageClick
    \/ AnalyticsPageSetChunkSize
    \/ ShortAnswerEditorPageClickAddAnAnswer
    \/ ShortAnswerEditorPageSetScore
    \/ ShortAnswerEditorPageSetResponse
    \/ DashboardPageVerifySelectedGroup

SpecForm == Init /\ [][NextForm]_vars

\* ------------------------------------------------ course content pages

\* Most check-answer buttons in a question batch.
MaxButtons == 2

\* Texts are sequences of characters: the empty text, and the texts of one
\* and of two characters.
Chars == {"a", "b"}

Texts == {<<>>} \cup {<<c>> : c \in Chars} \cup {<<c, d>> : c, d \in Chars}

\* Question batch ids: of a lesson ('L...'), of an assessment, or empty.
QuestionBatchIds == {<<"L", "1">>, <<"A", "1">>, <<>>}

\* sub in text
Contains(text, sub) ==
    \E i \in 0..(Len(text) - Len(sub)) : SubSeq(text, i + 1, i + Len(sub)) = sub

\* text.startswith(prefix)
StartsWith(text, prefix) ==
    Len(text) >= Len(prefix) /\ SubSeq(text, 1, Len(prefix)) = prefix

\* Mutation: the button's text has to be the given text.
ButtonMatches_Equal(button, button_text) == button = button_text

\* submit_question_batch: button_text in button.text
ButtonMatches(button, button_text) == Contains(button, button_text)

\* submit_question_batch: the loop over the buttons from the i-th on, and
\* the raise after it.
RECURSIVE SubmitFrom(_, _, _, _)
SubmitFrom(bs, i, question_batch_id, button_text) ==
    IF i > Len(bs)
    THEN [clicked |-> <<>>, returned |-> "", raised |-> "AssertionError"]
    ELSE IF ButtonMatches(bs[i], button_text)
    THEN [clicked |-> <<i>>,
          returned |-> IF StartsWith(question_batch_id, <<"L">>)
                       THEN "self" ELSE "AssessmentConfirmationPage",
          raised |-> ""]
    ELSE SubmitFrom(bs, i + 1, question_batch_id, button_text)

\* The page the test is on has one more check-answer button in the batch;
\* no method has been called on it yet.
PageWithButton ==
    \E text \in Texts :
        /\ Len(buttons) < MaxButtons
        /\ buttons' = Append(buttons, text)
        /\ method' = NoMethod
        /\ args' = EmptyDict
        /\ driverCalls' = <<>>
        /\ clicked' = <<>>
        /\ returned' = ""
        /\ thrown' = ""
        /\ UNCHANGED <<handlerVars, lessonVars, getVars, formVars, checkbox>>

\* CourseContentPage.submit_question_batch
SubmitQuestionBatch ==
    \E question_batch_id \in QuestionBatchIds, button_text \in Texts :
        \E r \in {SubmitFrom(buttons, 1, question_batch_id, button_text)} :
            /\ method' = [name |-> "submit_question_batch", arg |-> ""]
            /\ args' = [question_batch_id |-> question_batch_id,
                        button_text |-> button_text]
            /\ driverCalls' = <<"find_elements_by_css_selector">>
                                  \o [k \in DOMAIN r.clicked |-> "click"]
            /\ clicked' = r.clicked
            /\ returned' = r.returned
            /\ thrown' = r.raised
            /\ UNCHANGED <<handlerVars, lessonVars, getVars, formVars,
                           buttons, checkbox>>

\* Mutation: the checkbox is clicked whatever its state.
NeedsClick_Always(selected, setting) == TRUE

\* set_contents_on_one_page: checkbox.is_selected() != setting
NeedsClick(selected, setting) == selected # setting

\* AddUnit.set_contents_on_one_page on a page that has the label or not: a
\* click toggles the checkbox; without the label one_page_label stays None
\* and its find_element_by_xpath raises.
SetContentsOnOnePage ==
    \E setting \in BOOLEAN, labelled \in BOOLEAN :
        /\ method' = [name |-> "set_contents_on_one_page", arg |-> ""]
        /\ args' = [setting |-> setting]
        /\ IF ~labelled
           THEN /\ driverCalls' = <<"find_elements_by_tag_name">>
                /\ clicked' = <<>>
                /\ returned' = ""
                /\ thrown' = "AttributeError"
                /\ UNCHANGED checkbox
           ELSE /\ driverCalls' =
                      <<"find_elements_by_tag_name", "find_element_by_xpath",
                        "find_element_by_xpath", "find_element_by_css_selector",
                        "is_selected">>
                        \o (IF NeedsClick(checkbox, setting) THEN <<"click">>
                                                             ELSE <<>>)
                /\ clicked' = IF NeedsClick(checkbox, setting)
                              THEN <<"checkbox">> ELSE <<>>
                /\ checkbox' = IF NeedsClick(checkbox, setting)
                               THEN ~checkbox ELSE checkbox
                /\ returned' = "self"
                /\ thrown' = ""
        /\ UNCHANGED <<handlerVars, lessonVars, getVars, formVars, buttons>>

NextContent == PageWithButton \/ SubmitQuestionBatch \/ SetContentsOnOnePage

SpecContent == Init /\ [][NextContent]_vars

\* -------------------------------------------------------------- claims

Range(seq) == {seq[i] : i \in DOMAIN seq}

\* The request's token is present and validates for the handler's scope.
TokenValidates(rq) == rq.xsrf_token # "" /\ rq.xsrf_token = XSRF_TOKEN

DaoCalls == {"DAO.load", "DAO.save", "DAO.delete"}

HookCalls ==
    {"sanitize_input_dict", "transform_after_editor_hook", "validate",
     "pre_save_hook", "after_save_hook", "is_deletion_allowed"}
        \cup Range(PRE_SAVE_HOOKS)

\* C1: a PUT whose XSRF token is missing or does not validate, whatever the
\* caller's role, key and payload, never calls DAO.save, leaves the
\* datastore as it was and emits the token-denial response and nothing else.
C1_BadTokenPutDenied ==
    [][(request'.verb = "PUT" /\ ~TokenValidates(request'))
        => /\ store' = store
           /\ "DAO.save" \notin Range(calls')
           /\ saved' = <<>>
           /\ responses' = <<XsrfDeniedResponse("key" :> request'.key)>>]_vars

\* C1 witness: an admin's PUT of a valid payload with a token minted for
\* another scope was denied.
C1_Witness ==
    /\ request.verb = "PUT"
    /\ request.xsrf_token = "other-edit"
    /\ request.admin
    /\ request.payload = ("version" :> 1) @@ ("title" :> "x")
    /\ responses = <<XsrfDeniedResponse("key" :> request.key)>>

\* C2: the datastore changes only in a step that is a PUT or DELETE carrying
\* a valid XSRF token from a course admin; every other step leaves it as it
\* was.
C2_StoreChangesOnlyWhenAuthorized ==
    [][store' # store
        => /\ request'.verb \in {"PUT", "DELETE"}
           /\ TokenValidates(request')
           /\ request'.admin]_vars

\* C2 witness: an authorized DELETE has emptied the datastore.
C2_Witness ==
    /\ request.verb = "DELETE"
    /\ TokenValidates(request)
    /\ request.admin
    /\ "DAO.delete" \in Range(calls)
    /\ request.key \notin DOMAIN store

\* C3: a PUT or DELETE with a valid token from a caller who is not a course
\* admin is answered 401 'Access denied.', performs no DAO operation and
\* invokes no subclass hook.
C3_NonAdminDenied ==
    (request.verb \in {"PUT", "DELETE"} /\ TokenValidates(request)
        /\ ~request.admin)
    => /\ Len(responses) = 1
       /\ responses[1]["status"] = 401
       /\ responses[1]["message"] = "Access denied."
       /\ Range(calls) \cap (DaoCalls \cup HookCalls) = {}

\* C3 witness: a non-admin's PUT of a new, valid item with a valid token was
\* answered 401.
C3_Witness ==
    /\ request.verb = "PUT"
    /\ TokenValidates(request)
    /\ ~request.admin
    /\ request.key = NoKey
    /\ request.payload = ("version" :> 1) @@ ("title" :> "x")
    /\ Len(responses) = 1
    /\ responses[1]["status"] = 401

\* A PUT that passed the token check and the role check.
AuthorizedPut(rq) == rq.verb = "PUT" /\ TokenValidates(rq) /\ rq.admin

Unsupported(v) == \A i \in DOMAIN SCHEMA_VERSIONS : SCHEMA_VERSIONS[i] # v

\* The payload declares a version, and it is not a supported one.
DeclaresUnsupported(p) == Has(p, "version") /\ Unsupported(p["version"])

UnsupportedText(p) == "Version " \o ToString(p["version"]) \o " not supported."

SaveCalls ==
    {"DTO", "pre_save_hook", "DAO.save", "after_save_hook"}
        \cup Range(PRE_SAVE_HOOKS)

\* msgs[1..n] joined by newlines, in order.
RECURSIVE JoinedUpTo(_, _)
JoinedUpTo(msgs, n) ==
    IF n = 1 THEN msgs[1] ELSE JoinedUpTo(msgs, n - 1) \o "\n" \o msgs[n]

\* C4 as stated: an authorized PUT whose payload declares an unsupported
\* version never saves, leaves the datastore as it was, and its response
\* names the rejected version.
C4_Original ==
    [][(AuthorizedPut(request') /\ DeclaresUnsupported(request'.payload))
        => /\ store' = store
           /\ "DAO.save" \notin Range(calls')
           /\ Len(responses') = 1
           /\ responses'[1]["message"] = UnsupportedText(request'.payload)]_vars

\* C4 as amended: an authorized PUT whose payload declares an unsupported
\* version never saves, leaves the datastore as it was and is answered with
\* one validation error; the message names the rejected version when the
\* payload converts against the schema, and is the conversion error alone
\* when it does not.
C4_UnsupportedVersionNotSaved ==
    [][(AuthorizedPut(request') /\ DeclaresUnsupported(request'.payload))
        => /\ store' = store
           /\ "DAO.save" \notin Range(calls')
           /\ saved' = <<>>
           /\ responses' =
                <<ValidationErrorResponse(
                    IF JsonToDictRaises(request'.payload)
                    THEN JsonToDictError(request'.payload)
                    ELSE UnsupportedText(request'.payload),
                    request'.key)>>]_vars

\* C4 witness: an authorized PUT of version 3 was answered 'Version 3 not
\* supported.'
C4_Witness ==
    /\ AuthorizedPut(request)
    /\ request.payload = ("version" :> 3) @@ ("title" :> "x")
    /\ Len(responses) = 1
    /\ responses[1]["message"] = "Version 3 not supported."
    /\ saved = <<>>

\* C5: a PUT that accumulated at least one error answers with the
\* validation-error response carrying all the messages joined by newlines
\* in accumulation order, and does none of: DTO construction,
\* pre_save_hook, PRE_SAVE_HOOKS, DAO.save, after_save_hook.
C5_ErrorsReportedNothingSaved ==
    (request.verb = "PUT" /\ errors # <<>>)
    => /\ responses =
            <<ValidationErrorResponse(JoinedUpTo(errors, Len(errors)),
                                      request.key)>>
       /\ Range(calls) \cap SaveCalls = {}
       /\ dto = <<>>
       /\ saved = <<>>

\* C5 witness: validate appended two messages and both were reported, in
\* order.
C5_Witness ==
    /\ request.verb = "PUT"
    /\ errors = <<"Title is required.", "Version 1 has no count.">>
    /\ Len(responses) = 1
    /\ responses[1]["message"] = "Title is required.\nVersion 1 has no count."
    /\ saved = <<>>

\* Every problem of a payload: the conversion error, the unsupported
\* version, and what the subclass's validate reports.
Problems(p) ==
    (IF JsonToDictRaises(p) THEN {JsonToDictError(p)} ELSE {})
        \cup (IF DeclaresUnsupported(p) THEN {UnsupportedText(p)} ELSE {})
        \cup Range(Validate(p))

\* C6 as stated: the validation-error response of an authorized PUT whose
\* payload has more than one problem lists every one of them.
C6_Original ==
    (AuthorizedPut(request) /\ Cardinality(Problems(request.payload)) > 1)
    => /\ Problems(request.payload) \subseteq Range(errors)
       /\ Len(responses) = 1
       /\ responses[1]["message"] = JoinedUpTo(errors, Len(errors))

\* The errors of the first stage that fails: conversion, then the version
\* check, then validate.
FirstFailingStage(p) ==
    IF JsonToDictRaises(p) THEN <<JsonToDictError(p)>>
    ELSE IF ~Has(p, "version") THEN <<"Version None not supported.">>
    ELSE IF DeclaresUnsupported(p) THEN <<UnsupportedText(p)>>
    ELSE Validate(JsonToDict(p))

\* C6 as amended: an authorized PUT reports the errors of the first failing
\* stage only: the conversion error alone; else the unsupported version
\* alone; else every message validate appends, in order, in one response.
C6_FirstFailingStageReported ==
    AuthorizedPut(request)
    => /\ errors = FirstFailingStage(request.payload)
       /\ errors # <<>> =>
            /\ Len(responses) = 1
            /\ responses[1]["message"] = JoinedUpTo(errors, Len(errors))

\* C6 witness: a payload with a conversion error, an unsupported version and
\* an empty title was answered with the conversion error alone.
C6_Witness ==
    /\ AuthorizedPut(request)
    /\ request.payload = ("version" :> 3) @@ ("title" :> "") @@ ("count" :> "abc")
    /\ errors = <<"invalid literal for int() with base 10: 'abc'">>
    /\ Len(responses) = 1
    /\ responses[1]["message"] = "invalid literal for int() with base 10: 'abc'"

\* The last invocation was a PUT that saved an item.
PutSucceeded == request.verb = "PUT" /\ saved # <<>>

\* C7 as stated: after a PUT that succeeded and returned key k, the next
\* request, an admin's GET with key k, returns a payload equal to the
\* transformed input mapping that was saved.
C7_Original ==
    [][(PutSucceeded /\ request'.verb = "GET" /\ request'.admin
            /\ request'.key = saved[1])
        => /\ Len(responses') = 1
           /\ Has(responses'[1], "payload")
           /\ responses'[1]["payload"] = dto[1].dict]_vars

\* C7 as amended: that GET returns the saved mapping with 'id' set to k.
C7_RoundTripWithId ==
    [][(PutSucceeded /\ request'.verb = "GET" /\ request'.admin
            /\ request'.key = saved[1])
        => /\ Len(responses') = 1
           /\ responses'[1]["status"] = 200
           /\ Has(responses'[1], "payload")
           /\ responses'[1]["payload"] = SetItem(dto[1].dict, "id", saved[1])]_vars

\* C7 witness: a GET returned an item that only a PUT can have stored, its
\* count converted to a number and the id injected.
C7_Witness ==
    /\ request.verb = "GET"
    /\ request.key = 1
    /\ Len(responses) = 1
    /\ Has(responses[1], "payload")
    /\ responses[1]["payload"] =
         [version |-> 2, title |-> "x", count |-> 7, id |-> 1]

ScenarioPayload == ("title" :> "x") @@ ("version" :> 1)

\* The PUT of the scenario: valid token, admin, no key, {"title": "x"} in
\* version 1.
ScenarioPut(rq) ==
    AuthorizedPut(rq) /\ rq.key = NoKey /\ rq.payload = ScenarioPayload

\* C8: the PUT of the scenario responds 200 with payload {"key": k}, k the
\* key DAO.save returned, and the GET with key k that follows responds 200
\* with payload exactly {"title": "x", "id": k, "version": 1}.
C8_Scenario ==
    [][/\ ScenarioPut(request')
            => /\ saved' # <<>>
               /\ responses' = <<Response(200, "Saved.", "key" :> saved'[1], "")>>
       /\ (ScenarioPut(request) /\ saved # <<>> /\ request'.verb = "GET"
                /\ request'.admin /\ request'.key = saved[1])
            => /\ Len(responses') = 1
               /\ responses'[1]["status"] = 200
               /\ Has(responses'[1], "payload")
               /\ responses'[1]["payload"] =
                    [title |-> "x", id |-> saved[1], version |-> 1]]_vars

\* C8 witness: the PUT of the scenario created key 1 and answered with it.
C8_Witness ==
    /\ ScenarioPut(request)
    /\ saved = <<1>>
    /\ responses = <<Response(200, "Saved.", "key" :> 1, "")>>
    /\ store[1] = ScenarioPayload

\* C9: on the success path of PUT the steps happen once each, in this
\* order: the DTO is built (with the request key, or None), pre_save_hook,
\* every PRE_SAVE_HOOKS callback in registration order, DAO.save,
\* after_save_hook, then the 200 'Saved.' response carrying the key
\* DAO.save returned.
C9_SaveStepsInOrder ==
    (AuthorizedPut(request) /\ FirstFailingStage(request.payload) = <<>>)
    => /\ calls = <<"assert_xsrf_token_or_fail", "is_course_admin",
                    "sanitize_input_dict", "json_to_dict",
                    "transform_after_editor_hook", "validate",
                    "DTO", "pre_save_hook">>
                  \o PRE_SAVE_HOOKS
                  \o <<"DAO.save", "after_save_hook", "send_json_response">>
       /\ dto = <<DTO(IF request.key # NoKey THEN <<request.key>> ELSE <<>>,
                      JsonToDict(request.payload))>>
       /\ saved # <<>>
       /\ saved[1] \in DOMAIN store
       /\ store[saved[1]] = dto[1].dict
       /\ responses = <<Response(200, "Saved.", "key" :> saved[1], "")>>

\* C9 witness: a new item (no request key) with a count went through the
\* save steps.
C9_Witness ==
    /\ AuthorizedPut(request)
    /\ request.key = NoKey
    /\ request.payload = ("version" :> 2) @@ ("title" :> "x") @@ ("count" :> "7")
    /\ dto = <<DTO(<<>>, [version |-> 2, title |-> "x", count |-> 7])>>
    /\ calls[Len(calls) - 2] = "DAO.save"
    /\ Len(responses) = 1
    /\ responses[1]["status"] = 200

\* A DELETE that passed the token check and the role check.
AuthorizedDelete(rq) == rq.verb = "DELETE" /\ TokenValidates(rq) /\ rq.admin

\* C10: an authorized DELETE of a key the datastore does not hold is
\* answered 404 'Not found.', calls neither is_deletion_allowed nor
\* DAO.delete and raises nothing; deleting the same key twice yields 200
\* and then 404.
C10_DeleteMissingIs404 ==
    [][/\ (AuthorizedDelete(request') /\ request'.key \notin DOMAIN store)
            => /\ responses' = <<Response(404, "Not found.",
                                          "key" :> request'.key, "")>>
               /\ "is_deletion_allowed" \notin Range(calls')
               /\ "DAO.delete" \notin Range(calls')
               /\ raised' = ""
               /\ store' = store
       /\ (AuthorizedDelete(request) /\ Len(responses) = 1
                /\ responses[1]["status"] = 200
                /\ AuthorizedDelete(request') /\ request'.key = request.key)
            => /\ Len(responses') = 1
               /\ responses'[1]["status"] = 404]_vars

\* C10 witness: a key that had been stored and deleted was deleted again
\* and the answer was 404.
C10_Witness ==
    /\ AuthorizedDelete(request)
    /\ request.key \in used
    /\ request.key \notin DOMAIN store
    /\ responses = <<Response(404, "Not found.", "key" :> request.key, "")>>

\* C11: when is_deletion_allowed returns False for the loaded item, DELETE
\* calls no DAO.delete, leaves the datastore as it was and the base handler
\* emits no response at all (no 200 'Deleted.').
C11_DeletionRefused ==
    [][(AuthorizedDelete(request') /\ request'.key \in DOMAIN store
            /\ ~request'.allow)
        => /\ "is_deletion_allowed" \in Range(calls')
           /\ "DAO.delete" \notin Range(calls')
           /\ store' = store
           /\ responses' = <<>>]_vars

\* C11 witness: the hook refused the deletion of a stored item; the item is
\* still stored and nothing was answered.
C11_Witness ==
    /\ AuthorizedDelete(request)
    /\ ~request.allow
    /\ request.key \in DOMAIN store
    /\ calls[Len(calls)] = "is_deletion_allowed"
    /\ responses = <<>>

\* The calls of a DELETE, by the first check that fails.
DeleteCallsExpected(rq, st) ==
    IF ~TokenValidates(rq) THEN <<"assert_xsrf_token_or_fail">>
    ELSE IF ~rq.admin
    THEN <<"assert_xsrf_token_or_fail", "is_course_admin", "send_json_response">>
    ELSE IF rq.key \notin DOMAIN st
    THEN <<"assert_xsrf_token_or_fail", "is_course_admin", "DAO.load",
           "send_json_response">>
    ELSE IF ~rq.allow
    THEN <<"assert_xsrf_token_or_fail", "is_course_admin", "DAO.load",
           "is_deletion_allowed">>
    ELSE <<"assert_xsrf_token_or_fail", "is_course_admin", "DAO.load",
           "is_deletion_allowed", "DAO.delete", "send_json_response">>

\* C12: a DELETE calls DAO.delete if and only if the token validates, the
\* caller is a course admin, DAO.load returned an item and
\* is_deletion_allowed returned True, checked in this order; whenever
\* DAO.delete is called the response is 200 'Deleted.', sent after it.
C12_DeleteIffAllChecksPass ==
    [][request'.verb = "DELETE"
        => /\ "DAO.delete" \in Range(calls')
                <=> (TokenValidates(request') /\ request'.admin
                        /\ request'.key \in DOMAIN store /\ request'.allow)
           /\ calls' = DeleteCallsExpected(request', store)
           /\ "DAO.delete" \in Range(calls')
                => /\ responses' = <<Response(200, "Deleted.", EmptyDict, "")>>
                   /\ request'.key \notin DOMAIN store']_vars

\* C12 witness: all four checks passed, the item was deleted and 200 was
\* answered after the delete.
C12_Witness ==
    /\ AuthorizedDelete(request)
    /\ request.allow
    /\ calls = <<"assert_xsrf_token_or_fail", "is_course_admin", "DAO.load",
                 "is_deletion_allowed", "DAO.delete", "send_json_response">>
    /\ responses = <<Response(200, "Deleted.", EmptyDict, "")>>
    /\ request.key \notin DOMAIN store

\* C13 as stated: a GET from a caller who is not a course admin is answered
\* 401 and the response carries no payload and no XSRF token, whatever the
\* key and whether or not the item exists.
C13_Original ==
    (request.verb = "GET" /\ ~request.admin)
    => /\ Len(responses) = 1
       /\ responses[1]["status"] = 401
       /\ ~Has(responses[1], "payload")
       /\ ~Has(responses[1], "xsrf_token")

\* C13 as amended: that GET is answered 401 'Access denied.' with no XSRF
\* token and a payload that only echoes the request's key, {'key': key}:
\* nothing of the item, which is not loaded.
C13_NonAdminGetDenied ==
    (request.verb = "GET" /\ ~request.admin)
    => /\ Len(responses) = 1
       /\ responses[1]["status"] = 401
       /\ responses[1]["message"] = "Access denied."
       /\ Has(responses[1], "payload")
       /\ responses[1]["payload"] = [key |-> request.key]
       /\ ~Has(responses[1], "xsrf_token")
       /\ "DAO.load" \notin Range(calls)
       /\ raised = ""

\* C13 witness: a non-admin asked for a stored item and got 401 with the key
\* echoed.
C13_Witness ==
    /\ request.verb = "GET"
    /\ ~request.admin
    /\ request.key \in DOMAIN store
    /\ responses = <<[status |-> 401, message |-> "Access denied.",
                      payload |-> [key |-> request.key]]>>

\* The request makes its handler load an item by key, past the handler's
\* checks.
LoadsByKey(rq) ==
    \/ rq.verb = "GET" /\ rq.admin /\ rq.key # NoKey
    \/ AuthorizedDelete(rq)

\* C14 as stated: in GET and DELETE a key the DAO holds no item for is
\* answered with a not-found response and no exception leaves the handler;
\* a stored item of an unsupported version is answered too, not raised.
C14_MissingItemReported ==
    [][/\ (LoadsByKey(request') /\ request'.key \notin DOMAIN store)
            => /\ raised' = ""
               /\ Len(responses') = 1
               /\ responses'[1]["status"] = 404
       /\ (request'.verb = "GET" /\ request'.admin
                /\ request'.key \in DOMAIN store
                /\ Unsupported(store[request'.key]["version"]))
            => /\ raised' = ""
               /\ Len(responses') = 1]_vars

\* C15: an admin's GET of a stored item whose version is not supported is
\* answered 403 naming the version, with none of the item's attributes,
\* without PRE_LOAD_HOOKS or transform_for_editor_hook, and with no token.
C15_UnsupportedItemRefused ==
    (request.verb = "GET" /\ request.admin /\ request.key \in DOMAIN store
        /\ Unsupported(store[request.key]["version"]))
    => /\ Len(responses) = 1
       /\ responses[1]["status"] = 403
       /\ responses[1]["message"] =
            "Version " \o ToString(store[request.key]["version"])
                       \o " not supported."
       /\ ~Has(responses[1], "xsrf_token")
       /\ Has(responses[1], "payload")
            => DOMAIN responses[1]["payload"] = {"key"}
       /\ Range(calls) \cap (Range(PRE_LOAD_HOOKS)
                               \cup {"transform_for_editor_hook"}) = {}

\* C15 witness: the item of version 3 was asked for and refused.
C15_Witness ==
    /\ request.verb = "GET"
    /\ request.admin
    /\ request.key \in DOMAIN store
    /\ store[request.key] = LegacyItem
    /\ Len(responses) = 1
    /\ responses[1]["status"] = 403
    /\ responses[1]["message"] = "Version 3 not supported."

\* C16: an admin's GET with no key is answered 200 with exactly the mapping
\* get_default_content returned: no 'id' injected, no PRE_LOAD_HOOKS, no
\* transform_for_editor_hook, and the DAO is not consulted.
C16_DefaultsUnmodified ==
    (request.verb = "GET" /\ request.admin /\ request.key = NoKey)
    => /\ Len(responses) = 1
       /\ responses[1]["status"] = 200
       /\ Has(responses[1], "payload")
       /\ responses[1]["payload"] = GetDefaultContent
       /\ ~Has(responses[1]["payload"], "id")
       /\ calls = <<"is_course_admin", "get_default_content",
                    "create_xsrf_token", "send_json_response">>

\* C16 witness: the defaults were served while an item was stored.
C16_Witness ==
    /\ request.verb = "GET"
    /\ request.admin
    /\ request.key = NoKey
    /\ store # EmptyDict
    /\ Len(responses) = 1
    /\ responses[1]["payload"] = [version |-> 1, title |-> ""]

\* C17: an admin's GET of a stored item of a supported version is answered
\* 200 with transform_for_editor_hook(d), d a copy of the item's attributes
\* with 'id' set to its identifier, passed through the PRE_LOAD_HOOKS in
\* order; the response carries a token minted for XSRF_TOKEN, and so does
\* every 200 response of a GET.
C17_ItemServedWithToken ==
    /\ (request.verb = "GET" /\ request.admin /\ request.key \in DOMAIN store
            /\ ~Unsupported(store[request.key]["version"]))
        => /\ responses =
                <<[status |-> 200, message |-> "Success",
                   payload |-> TransformForEditorHook(
                                   SetItem(store[request.key], "id", request.key)),
                   xsrf_token |-> CreateXsrfToken(XSRF_TOKEN)]>>
           /\ calls = <<"is_course_admin", "DAO.load">> \o PRE_LOAD_HOOKS
                        \o <<"transform_for_editor_hook", "create_xsrf_token",
                             "send_json_response">>
    /\ request.verb = "GET"
        => \A i \in DOMAIN responses :
              responses[i]["status"] = 200
                => /\ Has(responses[i], "xsrf_token")
                   /\ responses[i]["xsrf_token"] = CreateXsrfToken(XSRF_TOKEN)

\* C17 witness: the stored item of version 1 was served with its id and a
\* token.
C17_Witness ==
    /\ request.verb = "GET"
    /\ request.key = 1
    /\ responses = <<[status |-> 200, message |-> "Success",
                      payload |-> [version |-> 1, title |-> "welcome", id |-> 1],
                      xsrf_token |-> "item-edit"]>>

\* Where a call stands among the calls of the invocation.
IndexOf(seq, x) == CHOOSE i \in DOMAIN seq : seq[i] = x

\* C18: in PUT sanitize_input_dict runs before the schema conversion, and
\* transform_after_editor_hook and validate are invoked only when the
\* conversion raised nothing and the converted version is supported, so the
\* schema_version validate receives is always in SCHEMA_VERSIONS.
C18_ValidateOnlySupported ==
    request.verb = "PUT"
    => /\ "json_to_dict" \in Range(calls)
            => /\ "sanitize_input_dict" \in Range(calls)
               /\ IndexOf(calls, "sanitize_input_dict")
                    < IndexOf(calls, "json_to_dict")
       /\ ("validate" \in Range(calls)
                \/ "transform_after_editor_hook" \in Range(calls))
            => /\ ~JsonToDictRaises(request.payload)
               /\ Has(request.payload, "version")
               /\ \E i \in DOMAIN SCHEMA_VERSIONS :
                     SCHEMA_VERSIONS[i] = JsonToDict(request.payload)["version"]
               /\ IndexOf(calls, "json_to_dict")
                    < IndexOf(calls, "transform_after_editor_hook")
               /\ IndexOf(calls, "transform_after_editor_hook")
                    < IndexOf(calls, "validate")

\* C18 witness: validate ran on a payload of version 2 and reported an
\* error.
C18_Witness ==
    /\ request.verb = "PUT"
    /\ request.payload = ("version" :> 2) @@ ("title" :> "")
    /\ "validate" \in Range(calls)
    /\ errors = <<"Title is required.">>

\* C19: from a datastore whose items all have a supported version, every
\* stored item has a supported version after any sequence of requests: PUT
\* never persists an unsupported or absent version.
C19_VersionsStaySupported ==
    \A k \in DOMAIN store :
        /\ Has(store[k], "version")
        /\ ~Unsupported(store[k]["version"])

\* C19 witness: a PUT stored an item of version 2.
C19_Witness ==
    /\ PutSucceeded
    /\ store[saved[1]] = [version |-> 2, title |-> "x", count |-> 7]

\* The last method entered the iframe region: it switched to the frame.
RegionEntered == "switch_to_frame" \in Range(driverCalls)

\* C20: control has left every use of the _edit_lesson_iframe region,
\* whether its body returned or raised, with switch_to_default_content
\* called and the driver's focus on the parent document.
C20_ContextRestoredOnExit ==
    RegionEntered =>
        /\ "switch_to_default_content" \in Range(driverCalls)
        /\ frame = TopDocument

\* The driver loads a get has done.
Loads == Len(SelectSeq(driverCalls, LAMBDA c : c = "get"))

\* The loads a get may do.
AllowedLoads == IF can_retry THEN 10 ELSE 1

\* C21: a get does at most 10 loads when it may retry and at most 1 when
\* it may not; no load follows one that does not show the site down; it
\* returns at the first such load, and it raises TimeoutException exactly
\* when every allowed load showed the site down.
C21_GetLoadsBounded ==
    method.name = "get" =>
        /\ Loads = Len(page_sources)
        /\ Loads + tries = AllowedLoads
        /\ tries >= 0
        /\ \A i \in 1..(Len(page_sources) - 1) : page_sources[i]
        /\ pc = "while" => \A i \in DOMAIN page_sources : page_sources[i]
        /\ (pc = "done" /\ thrown = "") <=>
              /\ page_sources # <<>>
              /\ ~page_sources[Len(page_sources)]
        /\ (pc = "done" /\ thrown = "") => returned = "None"
        /\ (pc = "done" /\ ~can_retry) => Loads = 1
        /\ thrown = "TimeoutException" <=>
              /\ pc = "done"
              /\ Loads = AllowedLoads
              /\ \A i \in DOMAIN page_sources : page_sources[i]
        /\ thrown \in {"", "TimeoutException"}

\* C21 witness: a get that may retry raised after ten loads that all showed
\* the site down.
C21_Witness ==
    /\ method.name = "get"
    /\ can_retry
    /\ pc = "done"
    /\ Loads = 10
    /\ thrown = "TimeoutException"

\* The last call completed normally.
CompletedNormally == method # NoMethod /\ thrown = ""

\* C22: an action method that completes normally has returned a page
\* object (self, or the page object of the next page), never None.
C22_ActionMethodsReturnPageObject ==
    (CompletedNormally /\ method.name # "get") => returned # "None"

\* C23: a PUT or DELETE whose token does not validate, from a caller who is
\* not a course admin either, is answered with the token-denial response
\* alone: no 401 is sent and is_course_admin is not consulted.
C23_TokenCheckedBeforeRole ==
    (request.verb \in {"PUT", "DELETE"} /\ ~TokenValidates(request)
        /\ ~request.admin)
        => /\ responses = <<XsrfDeniedResponse("key" :> request.key)>>
           /\ \A i \in DOMAIN responses : responses[i]["status"] # 401
           /\ "is_course_admin" \notin Range(calls)
           /\ calls = <<"assert_xsrf_token_or_fail">>

\* C23 witness: a DELETE with a token of another scope from a caller who is
\* not a course admin was answered 403.
C23_Witness ==
    /\ request.verb = "DELETE"
    /\ request.xsrf_token = "other-edit"
    /\ ~request.admin
    /\ Len(responses) = 1
    /\ responses[1]["status"] = 403

\* The last invocation was a DELETE that is_deletion_allowed refused.
DeletionRefused ==
    /\ request.verb = "DELETE"
    /\ "is_deletion_allowed" \in Range(calls)
    /\ ~request.allow

\* C24: an invocation of get, put or delete emits at most one response; one
\* that returns normally emits exactly one, except a DELETE that
\* is_deletion_allowed refused, which emits none.
C24_OneResponsePerInvocation ==
    request.verb \in {"GET", "PUT", "DELETE"}
        => /\ Len(responses) <= 1
           /\ raised = "" => Len(responses) = (IF DeletionRefused THEN 0 ELSE 1)

\* C24 witness: a PUT that returned normally after reporting two validation
\* errors emitted one response.
C24_Witness ==
    /\ request.verb = "PUT"
    /\ raised = ""
    /\ Len(errors) = 2
    /\ Len(responses) = 1

\* The last invocation was a GET that served a stored item.
ItemServed ==
    /\ request.verb = "GET"
    /\ Len(responses) = 1
    /\ responses[1]["status"] = 200
    /\ request.key # NoKey

\* C25: a GET calls neither DAO.save nor DAO.delete and leaves the datastore
\* as it was; the item it loaded has no 'id' entry of its own after the
\* display mapping got one; and the payload is the stored item with its
\* 'id', so that the next GET of the key, served from the datastore this
\* one left as it was, is answered the same.
C25_GetReadOnly ==
    [][request'.verb = "GET"
        => /\ store' = store
           /\ used' = used
           /\ "DAO.save" \notin Range(calls')
           /\ "DAO.delete" \notin Range(calls')
           /\ ItemServed' =>
                 /\ dto' = <<DTO(<<request'.key>>, store[request'.key])>>
                 /\ ~Has(dto'[1].dict, "id")
                 /\ responses'[1]["payload"] =
                        SetItem(store'[request'.key], "id", request'.key)]_vars

\* C25 witness: a GET served the stored item with its 'id' while the item
\* itself, loaded and stored, has none.
C25_Witness ==
    /\ ItemServed
    /\ responses[1]["payload"] = SetItem(store[request.key], "id", request.key)
    /\ dto[1].dict = store[request.key]
    /\ ~Has(store[request.key], "id")

\* The items a datastore may hold.
SampleItems == {LegacyItem, CurrentItem, [version |-> 2, title |-> "x", count |-> 7]}

\* The datastores the handler may find.
OtherStores == UNION {[K -> SampleItems] : K \in SUBSET Keys}

\* What the handler does with rq on the datastore st.
Handled(st, rq) ==
    CASE rq.verb = "PUT" -> put(st, DOMAIN st, rq)
      [] rq.verb = "DELETE" -> delete(st, DOMAIN st, rq)
      [] OTHER -> get(st, DOMAIN st, rq)

\* C26: a request from a caller who is not a course admin is answered the
\* same whatever the datastore holds, and the handler does no DAO.load for
\* it: the answer tells neither whether the key exists nor the version of
\* its item.
C26_NonAdminLearnsNothing ==
    (request.verb \in {"GET", "PUT", "DELETE"} /\ ~request.admin)
        => /\ "DAO.load" \notin Range(calls)
           /\ raised = ""
           /\ \A st \in OtherStores :
                 /\ Handled(st, request).responses = responses
                 /\ Handled(st, request).raised = raised

\* C26 witness: a caller who is not a course admin asked, with a valid
\* token, to delete a key the datastore holds, and was answered 401.
C26_Witness ==
    /\ request.verb = "DELETE"
    /\ ~request.admin
    /\ request.xsrf_token = XSRF_TOKEN
    /\ request.key \in DOMAIN store
    /\ Len(responses) = 1
    /\ responses[1]["status"] = 401

\* The public methods that switch the driver into an iframe.
IframeMethods ==
    {"set_rte_lightbox_field", "click_rte_save", "doubleclick_rte_element",
     "ensure_rte_lightbox_field_has_value",
     "ensure_preview_document_matches_regex", "verify_question_preview",
     "edit_lesson_iframe_assert_equal_codemirror",
     "edit_lesson_iframe_setvalue_codemirror", "edit_lesson_iframe_click_save"}

SwitchesIn == {"switch_to_frame", "frame_to_be_available_and_switch_to_it"}

\* The frame switches among the driver calls of the last method, in order.
SwitchCalls ==
    SelectSeq(driverCalls,
              LAMBDA c : c \in SwitchesIn \cup {"switch_to_default_content"})

\* C27: when a public method that switches the driver into an iframe has
\* returned normally, the driver's context is the top-level document, and
\* each switch into a frame it made was followed by a
\* switch_to_default_content before it returned.
C27_FrameLeftOnNormalReturn ==
    (method.name \in IframeMethods /\ thrown = "")
        => /\ returned = "self"
           /\ frame = TopDocument
           /\ SwitchCalls # <<>>
           /\ \A i \in DOMAIN SwitchCalls :
                 IF SwitchCalls[i] \in SwitchesIn
                 THEN /\ i < Len(SwitchCalls)
                      /\ SwitchCalls[i + 1] = "switch_to_default_content"
                 ELSE /\ i > 1
                      /\ SwitchCalls[i - 1] \in SwitchesIn

\* C27 witness: ensure_rte_lightbox_field_has_value returned after its
\* assertion held, the driver back in the top-level document.
C27_Witness ==
    /\ method.name = "ensure_rte_lightbox_field_has_value"
    /\ thrown = ""
    /\ "assertEqual" \in Range(driverCalls)
    /\ frame = TopDocument

\* The buttons of the batch whose text contains the text asked for.
MatchingButtons ==
    {i \in DOMAIN buttons : Contains(buttons[i], args.button_text)}

\* C28: submit_question_batch clicks one button, the first of the batch
\* whose text contains button_text, and returns self for a batch id that
\* starts with 'L' and an AssessmentConfirmationPage otherwise; when no
\* button contains button_text it clicks none and raises AssertionError.
C28_SubmitClicksFirstMatch ==
    method.name = "submit_question_batch" =>
        IF MatchingButtons = {}
        THEN /\ clicked = <<>>
             /\ "click" \notin Range(driverCalls)
             /\ thrown = "AssertionError"
             /\ returned = ""
        ELSE /\ Len(clicked) = 1
             /\ clicked[1] \in MatchingButtons
             /\ \A i \in MatchingButtons : clicked[1] <= i
             /\ Len(SelectSeq(driverCalls, LAMBDA c : c = "click")) = 1
             /\ thrown = ""
             /\ returned =
                   IF args.question_batch_id # <<>>
                        /\ args.question_batch_id[1] = "L"
                   THEN "self" ELSE "AssessmentConfirmationPage"

\* C28 witness: of two buttons the second is the first to contain the
\* text; it was clicked and, the batch being an assessment's, the
\* confirmation page was returned.
C28_Witness ==
    /\ method.name = "submit_question_batch"
    /\ buttons = << <<"a">>, <<"a", "b">> >>
    /\ args.button_text = <<"b">>
    /\ args.question_batch_id = <<"A", "1">>
    /\ clicked = <<2>>
    /\ returned = "AssessmentConfirmationPage"

\* C29: set_contents_on_one_page clicks the checkbox only when its state
\* differs from setting; when it has returned the state equals setting; and
\* a call that follows a call with the same setting clicks nothing.
C29_ContentsOnOnePageIdempotent ==
    [][(method'.name = "set_contents_on_one_page" /\ thrown' = "")
        => /\ checkbox' = args'.setting
           /\ clicked' = IF checkbox # args'.setting THEN <<"checkbox">> ELSE <<>>
           /\ Len(SelectSeq(driverCalls', LAMBDA c : c = "click")) = Len(clicked')
           /\ returned' = "self"
           /\ (method.name = "set_contents_on_one_page" /\ thrown = ""
                  /\ args.setting = args'.setting)
                 => clicked' = <<>>]_vars

\* C29 witness: a call found the checkbox selected, was asked to clear it,
\* and clicked it.
C29_Witness ==
    /\ method.name = "set_contents_on_one_page"
    /\ args.setting = FALSE
    /\ clicked = <<"checkbox">>
    /\ checkbox = FALSE
    /\ thrown = ""

====
